---- MODULE Spec2Model ----
(***************************************************************************)
(* A model of the HEA property predictor (src/src/hea_predictor):          *)
(*   data_loader.parse_composition, the three estimators of calculator.py  *)
(*   and the sequence of steps of cli.main after the element table has     *)
(*   been loaded.                                                          *)
(*                                                                         *)
(* Text is a sequence of one-character strings.  A float is a record       *)
(* [k, n, d]: k = "num" is the rational n/d in lowest terms (d > 0),       *)
(* k = "nan" is NaN, k = "inf" is +inf (n = 1) or -inf (n = -1).           *)
(* Arithmetic on "num" values is exact; rounding of IEEE doubles is not    *)
(* modelled.  NaN propagates and compares false, as in Python.             *)
(***************************************************************************)
EXTENDS Integers, Sequences, FiniteSets, TLC

VARIABLES pc, composition_str, element_data, composition_dict,
          predicted_density, lattice_param_result, predicted_conductivity,
          stderr, results, called

vars == <<pc, composition_str, element_data, composition_dict,
          predicted_density, lattice_param_result, predicted_conductivity,
          stderr, results, called>>

----------------------------------------------------------------------------
(* Floats *)

Abs(x) == IF x < 0 THEN -x ELSE x

RECURSIVE GCD(_, _)
GCD(a, b) == IF b = 0 THEN a ELSE GCD(b, a % b)

Rat(n, d) ==
    LET g == GCD(Abs(n), d)
    IN  [k |-> "num", n |-> n \div g, d |-> d \div g]

NaN == [k |-> "nan", n |-> 0, d |-> 1]
PosInf == [k |-> "inf", n |-> 1, d |-> 1]
Zero == Rat(0, 1)
One == Rat(1, 1)

IsNaN(x) == x.k = "nan"

\* x + y and x * y on floats (the operands the program adds and multiplies are
\* finite or NaN: an infinite fraction never passes the parser's range check).
FAdd(x, y) ==
    IF IsNaN(x) \/ IsNaN(y) THEN NaN
    ELSE Rat(x.n * y.d + y.n * x.d, x.d * y.d)

FMul(x, y) ==
    IF IsNaN(x) \/ IsNaN(y) THEN NaN
    ELSE Rat(x.n * y.n, x.d * y.d)

\* x / y for y # 0 (the callers test for a zero divisor first).
FDiv(x, y) ==
    IF IsNaN(x) \/ IsNaN(y) THEN NaN
    ELSE IF y.n < 0 THEN Rat(-(x.n * y.d), x.d * (-y.n))
    ELSE Rat(x.n * y.d, x.d * y.n)

\* x < y; any comparison with NaN is false.
FLt(x, y) ==
    CASE IsNaN(x) \/ IsNaN(y) -> FALSE
      [] x.k = "inf" /\ y.k = "inf" -> x.n < y.n
      [] x.k = "inf" -> x.n < 0
      [] y.k = "inf" -> y.n > 0
      [] OTHER -> x.n * y.d < y.n * x.d

FLe(x, y) == FLt(x, y) \/ (~IsNaN(x) /\ ~IsNaN(y) /\ x = y)

----------------------------------------------------------------------------
(* Text: str.strip, str.split, str.upper, float(str) *)

RECURSIVE LStrip(_)
LStrip(s) == IF s # <<>> /\ Head(s) = " " THEN LStrip(Tail(s)) ELSE s

RECURSIVE RStrip(_)
RStrip(s) ==
    IF s # <<>> /\ s[Len(s)] = " " THEN RStrip(SubSeq(s, 1, Len(s) - 1)) ELSE s

Strip(s) == RStrip(LStrip(s))

RECURSIVE Split(_, _)
Split(s, sep) ==
    IF \A i \in 1..Len(s) : s[i] # sep THEN <<s>>
    ELSE LET i == CHOOSE j \in 1..Len(s) :
                      s[j] = sep /\ \A h \in 1..(j - 1) : s[h] # sep
         IN  <<SubSeq(s, 1, i - 1)>> \o Split(SubSeq(s, i + 1, Len(s)), sep)

UpperChar ==
    "a" :> "A" @@ "b" :> "B" @@ "c" :> "C" @@ "f" :> "F" @@ "h" :> "H" @@ "p" :> "P"

Upper(s) ==
    [i \in 1..Len(s) |-> IF s[i] \in DOMAIN UpperChar THEN UpperChar[s[i]] ELSE s[i]]

DigitVal ==
    "0" :> 0 @@ "1" :> 1 @@ "2" :> 2 @@ "3" :> 3 @@ "4" :> 4 @@
    "5" :> 5 @@ "6" :> 6 @@ "7" :> 7 @@ "8" :> 8 @@ "9" :> 9

AllDigits(s) == \A i \in 1..Len(s) : s[i] \in DOMAIN DigitVal

RECURSIVE DigitsValue(_, _)
DigitsValue(s, acc) ==
    IF s = <<>> THEN acc ELSE DigitsValue(Tail(s), acc * 10 + DigitVal[Head(s)])

RECURSIVE Pow10(_)
Pow10(n) == IF n = 0 THEN 1 ELSE 10 * Pow10(n - 1)

\* float(s) on the decimal forms [sign] digits [. digits], nan and inf;
\* anything else raises ValueError ([ok |-> FALSE]).  Exponents are not modelled.
ParseUnsigned(s) ==
    LET f == Split(s, ".")
    IN  CASE s = <<"n", "a", "n">> -> [ok |-> TRUE, v |-> NaN]
          [] s = <<"i", "n", "f">> -> [ok |-> TRUE, v |-> PosInf]
          [] Len(f) = 1 /\ s # <<>> /\ AllDigits(s) ->
                [ok |-> TRUE, v |-> Rat(DigitsValue(s, 0), 1)]
          [] Len(f) = 2 /\ Len(f[1]) + Len(f[2]) > 0
                        /\ AllDigits(f[1]) /\ AllDigits(f[2]) ->
                [ok |-> TRUE,
                 v |-> Rat(DigitsValue(f[1] \o f[2], 0), Pow10(Len(f[2])))]
          [] OTHER -> [ok |-> FALSE, v |-> NaN]

FNeg(x) == IF x.k = "nan" THEN x ELSE [x EXCEPT !.n = -x.n]

ParseFloat(text) ==
    LET s == Strip(text)
    IN  IF s # <<>> /\ Head(s) = "-"
        THEN LET r == ParseUnsigned(Tail(s)) IN [r EXCEPT !.v = FNeg(r.v)]
        ELSE IF s # <<>> /\ Head(s) = "+" THEN ParseUnsigned(Tail(s))
        ELSE ParseUnsigned(s)

----------------------------------------------------------------------------
(* Messages printed to sys.stderr: severity, which message, the elements    *)
(* it names.  The numbers some messages format are left out.                *)

Msg(sev, id, args) == [sev |-> sev, id |-> id, args |-> args]

NormalizationWarning == Msg("Warning", "fractions_normalized", <<>>)

----------------------------------------------------------------------------
(* data_loader.parse_composition *)

None == [ok |-> FALSE, items |-> <<>>]

Keys(composition) == {composition[i].el : i \in 1..Len(composition)}

\* The for loop over parts: the composition and total so far, or the
\* ValueError raised by the first offending part.
RECURSIVE ParseParts(_, _, _)
ParseParts(parts, composition, total_fraction) ==
    IF parts = <<>>
    THEN [raised |-> "", composition |-> composition, total |-> total_fraction]
    ELSE LET fields == Split(Strip(Head(parts)), ":")
             fail(e) == [raised |-> e, composition |-> composition,
                         total |-> total_fraction]
         IN  IF Len(fields) # 2 THEN fail("unpack")
             ELSE LET element == Strip(fields[1])
                      parsed == ParseFloat(Strip(fields[2]))
                      fraction == parsed.v
                  IN  CASE ~parsed.ok -> fail("float")
                        [] element = <<>> -> fail("empty_symbol")
                        [] FLt(fraction, Zero) \/ FLt(One, fraction) -> fail("range")
                        [] element \in Keys(composition) -> fail("duplicate")
                        [] OTHER ->
                             ParseParts(Tail(parts),
                                        Append(composition,
                                               [el |-> element, frac |-> fraction]),
                                        FAdd(total_fraction, fraction))

\* Mutants of InTolerance: only the upper limit tested; a sum of exactly 1 excluded.
InToleranceUpperOnly(total_fraction) == FLt(total_fraction, Rat(1001, 1000))

InToleranceExcludesOne(total_fraction) ==
    FLt(One, total_fraction) /\ FLt(total_fraction, Rat(1001, 1000))

InTolerance(total_fraction) ==
    FLt(Rat(999, 1000), total_fraction) /\ FLt(total_fraction, Rat(1001, 1000))

\* Mutant of Normalize: the division left out.
NormalizeForgotten(composition, total_fraction) == composition

Normalize(composition, total_fraction) ==
    [i \in 1..Len(composition) |->
        [el |-> composition[i].el,
         frac |-> FDiv(composition[i].frac, total_fraction)]]

\* Returns [ret, err]: the dictionary (or None) and what was printed.
parse_composition(text) ==
    LET parts == Split(text, ",")
    IN  IF parts = << <<>> >>
        THEN [ret |-> None, err |-> <<Msg("Error", "parse_empty", <<>>)>>]
        ELSE LET r == ParseParts(parts, <<>>, Zero)
             IN  CASE r.raised # "" ->
                        [ret |-> None,
                         err |-> <<Msg("Error", "parse_" \o r.raised, <<>>)>>]
                   [] InTolerance(r.total) ->
                        [ret |-> [ok |-> TRUE, items |-> r.composition],
                         err |-> <<>>]
                   [] r.total = Zero ->
                        \* float division by zero: caught by except Exception
                        [ret |-> None,
                         err |-> <<NormalizationWarning,
                                   Msg("Error", "parse_unexpected", <<>>)>>]
                   [] OTHER ->
                        [ret |-> [ok |-> TRUE,
                                  items |-> Normalize(r.composition, r.total)],
                         err |-> <<NormalizationWarning>>]

----------------------------------------------------------------------------
(* The element table: a function from symbols to rows.  A missing (NaN)     *)
(* number is the float NaN; a missing structure label has na = TRUE.        *)

Row(mass, density, structure, lattice, conductivity) ==
    [AtomicMass_amu |-> mass, Density_g_cm3 |-> density,
     CrystalStructure |-> structure, LatticeParameter_a_A |-> lattice,
     ThermalConductivity_W_mK |-> conductivity]

Label(text) == [na |-> FALSE, text |-> text]
NoLabel == [na |-> TRUE, text |-> <<>>]

\* sorted(list(structures)): ascending by code point.
CodePointOrder ==
    <<" ", "(", ")", "A", "B", "C", "F", "H", "P", "a", "b", "c", "f", "h", "p">>

Ord(c) == CHOOSE i \in 1..Len(CodePointOrder) : CodePointOrder[i] = c

RECURSIVE TextLess(_, _)
TextLess(a, b) ==
    CASE b = <<>> -> FALSE
      [] a = <<>> -> TRUE
      [] Head(a) # Head(b) -> Ord(Head(a)) < Ord(Head(b))
      [] OTHER -> TextLess(Tail(a), Tail(b))

RECURSIVE Sorted(_)
Sorted(S) ==
    IF S = {} THEN <<>>
    ELSE LET m == CHOOSE x \in S : \A y \in S \ {x} : TextLess(x, y)
         IN  <<m>> \o Sorted(S \ {m})

NotFound(element) == Msg("Error", "element_not_found", <<element>>)

NoValue == [ok |-> FALSE, val |-> Zero]
Value(v) == [ok |-> TRUE, val |-> v]

----------------------------------------------------------------------------
(* calculator.calculate_density_rom *)

\* The for loop: the two sums, the skipped elements and what was printed,
\* or absent = TRUE when the loop returned None at an element not in the table.
RECURSIVE DensityLoop(_, _, _)
DensityLoop(items, table, acc) ==
    IF items = <<>> THEN acc
    ELSE LET element == Head(items).el
             fraction == Head(items).frac
         IN  IF element \notin DOMAIN table
             THEN [acc EXCEPT !.absent = TRUE,
                              !.err = Append(acc.err, NotFound(element))]
             ELSE LET props == table[element]
                      atomic_mass == props.AtomicMass_amu
                      density == props.Density_g_cm3
                      molar_volume == FDiv(atomic_mass, density)
                  IN  CASE IsNaN(atomic_mass) \/ IsNaN(density) ->
                             DensityLoop(Tail(items), table,
                                 [acc EXCEPT !.missing = Append(acc.missing,
                                        element \o <<" (mass or density)">>)])
                        [] FLe(density, Zero) ->
                             DensityLoop(Tail(items), table,
                                 [acc EXCEPT !.err = Append(acc.err,
                                        Msg("Warning", "density_nonpositive",
                                            <<element>>))])
                        [] OTHER ->
                             DensityLoop(Tail(items), table,
                                 [acc EXCEPT
                                    !.volume = FAdd(acc.volume,
                                                    FMul(fraction, molar_volume)),
                                    !.mass = FAdd(acc.mass,
                                                  FMul(fraction, atomic_mass))])

\* Mutants of DensityReturn: the molar mass returned undivided; the loop's
\* return None at an absent element taken for a break.
DensityReturnUndivided(r) ==
    IF r.absent \/ FLe(r.volume, Zero) \/ FLe(r.mass, Zero)
    THEN [ret |-> NoValue, err |-> r.err]
    ELSE [ret |-> Value(r.mass), err |-> r.err]

DensityReturnAfterBreak(r) ==
    IF FLe(r.volume, Zero) \/ FLe(r.mass, Zero)
    THEN [ret |-> NoValue, err |-> r.err]
    ELSE [ret |-> Value(FDiv(r.mass, r.volume)), err |-> r.err]

\* After the loop: the missing-data warning, the two guards, the quotient.
DensityReturn(r) ==
    LET err1 == IF r.missing # <<>>
                THEN Append(r.err, Msg("Warning", "density_missing_data", r.missing))
                ELSE r.err
    IN  CASE r.absent -> [ret |-> NoValue, err |-> r.err]
          [] FLe(r.volume, Zero) ->
                [ret |-> NoValue,
                 err |-> Append(err1, Msg("Error", "molar_volume_nonpositive", <<>>))]
          [] FLe(r.mass, Zero) ->
                [ret |-> NoValue,
                 err |-> Append(err1, Msg("Error", "molar_mass_nonpositive", <<>>))]
          [] OTHER -> [ret |-> Value(FDiv(r.mass, r.volume)), err |-> err1]

calculate_density_rom(composition, table) ==
    DensityReturn(DensityLoop(composition, table,
                      [absent |-> FALSE, volume |-> Zero, mass |-> Zero,
                       missing |-> <<>>, err |-> <<>>]))

----------------------------------------------------------------------------
(* calculator.calculate_lattice_parameter_vegard *)

RECURSIVE LatticeLoop(_, _, _)
LatticeLoop(items, table, acc) ==
    IF items = <<>> THEN acc
    ELSE LET element == Head(items).el
             fraction == Head(items).frac
         IN  IF element \notin DOMAIN table
             THEN [acc EXCEPT !.absent = TRUE,
                              !.err = Append(acc.err, NotFound(element))]
             ELSE LET props == table[element]
                      lattice_param == props.LatticeParameter_a_A
                      structure == props.CrystalStructure
                  IN  IF IsNaN(lattice_param) \/ FLe(lattice_param, Zero)
                      THEN LatticeLoop(Tail(items), table,
                               [acc EXCEPT !.missing = Append(acc.missing,
                                      element \o <<" (lattice param)">>)])
                      ELSE LatticeLoop(Tail(items), table,
                               [acc EXCEPT
                                  !.predicted = FAdd(acc.predicted,
                                                     FMul(fraction, lattice_param)),
                                  !.structures =
                                      IF structure.na THEN acc.structures
                                      ELSE acc.structures \cup {Upper(structure.text)},
                                  !.missing =
                                      IF structure.na
                                      THEN Append(acc.missing,
                                                  element \o <<" (structure)">>)
                                      ELSE acc.missing,
                                  !.contributing = acc.contributing + 1])

LatticeFailure == [ok |-> FALSE, val |-> Zero, structures |-> <<>>, warning |-> TRUE]

\* Mutant of LatticeReturn: the sum renormalized by the number of contributors.
LatticeReturnAveraged(r) ==
    IF r.absent \/ r.contributing = 0
    THEN [ret |-> LatticeFailure, err |-> r.err]
    ELSE [ret |-> [ok |-> TRUE,
                   val |-> FMul(r.predicted, Rat(Len(r.missing) + r.contributing,
                                                 r.contributing)),
                   structures |-> Sorted(r.structures),
                   warning |-> (r.missing # <<>> \/ Cardinality(r.structures) # 1)],
          err |-> IF r.missing # <<>>
                  THEN Append(r.err, Msg("Warning", "lattice_missing_data", r.missing))
                  ELSE r.err]

\* After the loop: the warnings, the no-contribution guard, the result tuple.
LatticeReturn(r) ==
    LET err1 == IF r.missing # <<>>
                THEN Append(r.err, Msg("Warning", "lattice_missing_data", r.missing))
                ELSE r.err
        n == Cardinality(r.structures)
        err2 == CASE n > 1 ->
                       Append(err1, Msg("Warning", "structures_differ",
                                        Sorted(r.structures)))
                  [] n = 0 /\ r.contributing > 0 ->
                       Append(err1, Msg("Warning", "structures_undefined", <<>>))
                  [] OTHER -> err1
    IN  CASE r.absent -> [ret |-> LatticeFailure, err |-> r.err]
          [] r.contributing = 0 ->
                [ret |-> LatticeFailure,
                 err |-> Append(err1, Msg("Error", "lattice_no_data", <<>>))]
          [] OTHER ->
                [ret |-> [ok |-> TRUE, val |-> r.predicted,
                          structures |-> Sorted(r.structures),
                          warning |-> (r.missing # <<>> \/ n # 1)],
                 err |-> err2]

calculate_lattice_parameter_vegard(composition, table) ==
    LatticeReturn(LatticeLoop(composition, table,
                      [absent |-> FALSE, predicted |-> Zero, structures |-> {},
                       contributing |-> 0, missing |-> <<>>, err |-> <<>>]))

----------------------------------------------------------------------------
(* calculator.calculate_thermal_conductivity_rom *)

LinearAverageCaution == Msg("Warning", "conductivity_linear_average", <<>>)

\* Mutant of ConductivityLoop: the conductivity added without its fraction.
RECURSIVE ConductivityLoopUnweighted(_, _, _)
ConductivityLoopUnweighted(items, table, acc) ==
    IF items = <<>> THEN acc
    ELSE LET element == Head(items).el
         IN  IF element \notin DOMAIN table
             THEN [acc EXCEPT !.absent = TRUE,
                              !.err = Append(acc.err, NotFound(element))]
             ELSE LET conductivity == table[element].ThermalConductivity_W_mK
                  IN  IF IsNaN(conductivity)
                      THEN ConductivityLoopUnweighted(Tail(items), table,
                               [acc EXCEPT !.missing = Append(acc.missing,
                                      element \o <<" (conductivity)">>)])
                      ELSE ConductivityLoopUnweighted(Tail(items), table,
                               [acc EXCEPT
                                  !.predicted = FAdd(acc.predicted, conductivity),
                                  !.contributing = acc.contributing + 1])

RECURSIVE ConductivityLoop(_, _, _)
ConductivityLoop(items, table, acc) ==
    IF items = <<>> THEN acc
    ELSE LET element == Head(items).el
             fraction == Head(items).frac
         IN  IF element \notin DOMAIN table
             THEN [acc EXCEPT !.absent = TRUE,
                              !.err = Append(acc.err, NotFound(element))]
             ELSE LET conductivity == table[element].ThermalConductivity_W_mK
                  IN  IF IsNaN(conductivity)
                      THEN ConductivityLoop(Tail(items), table,
                               [acc EXCEPT !.missing = Append(acc.missing,
                                      element \o <<" (conductivity)">>)])
                      ELSE ConductivityLoop(Tail(items), table,
                               [acc EXCEPT
                                  !.predicted = FAdd(acc.predicted,
                                                     FMul(fraction, conductivity)),
                                  !.contributing = acc.contributing + 1])

\* Mutant of ConductivityReturn: the caution printed only when no
\* missing-data warning was.
ConductivityReturnOneWarning(r) ==
    CASE r.absent -> [ret |-> NoValue, err |-> r.err]
      [] r.contributing = 0 ->
            [ret |-> NoValue,
             err |-> Append(r.err, Msg("Error", "conductivity_no_data", <<>>))]
      [] r.missing # <<>> ->
            [ret |-> Value(r.predicted),
             err |-> Append(r.err,
                            Msg("Warning", "conductivity_missing_data", r.missing))]
      [] OTHER ->
            [ret |-> Value(r.predicted), err |-> Append(r.err, LinearAverageCaution)]

\* After the loop: the missing-data warning, the no-contribution guard, the
\* caution printed before every returned value.
ConductivityReturn(r) ==
    LET err1 == IF r.missing # <<>>
                THEN Append(r.err,
                            Msg("Warning", "conductivity_missing_data", r.missing))
                ELSE r.err
    IN  CASE r.absent -> [ret |-> NoValue, err |-> r.err]
          [] r.contributing = 0 ->
                [ret |-> NoValue,
                 err |-> Append(err1, Msg("Error", "conductivity_no_data", <<>>))]
          [] OTHER ->
                [ret |-> Value(r.predicted),
                 err |-> Append(err1, LinearAverageCaution)]

calculate_thermal_conductivity_rom(composition, table) ==
    ConductivityReturn(ConductivityLoop(composition, table,
                           [absent |-> FALSE, predicted |-> Zero,
                            contributing |-> 0, missing |-> <<>>, err |-> <<>>]))

----------------------------------------------------------------------------
(* Inputs *)

MaxParts == 2
MaxElems == 2

RECURSIVE Join(_, _)
Join(parts, sep) ==
    CASE parts = <<>> -> <<>>
      [] Len(parts) = 1 -> parts[1]
      [] OTHER -> parts[1] \o <<sep>> \o Join(Tail(parts), sep)

SeqsUpTo(S, lo, hi) == UNION {[1..n -> S] : n \in lo..hi}

\* Composition strings given to parse_composition on its own.
ParseSymbolTexts == {<<"A">>, <<" ", "A">>, <<"B">>, <<>>}

ParseFractionTexts ==
    {<<"0">>, <<"0", ".", "5">>, <<"1">>, <<"0", ".", "9", "9", "9", "5">>,
     <<"0", ".", "0", "0", "0", "5">>, <<"1", ".", "5">>, <<"-", "1">>,
     <<"n", "a", "n">>, <<"i", "n", "f">>, <<"x">>}

ParsePartTexts ==
    {s \o <<":">> \o f : s \in ParseSymbolTexts, f \in ParseFractionTexts}
        \cup {<<"A">>, <<"A", ":", "1", ":", "1">>, <<" ">>}

ParseInputs == {Join(p, ",") : p \in SeqsUpTo(ParsePartTexts, 0, MaxParts)}

\* Compositions and tables given to the estimators on their own.
SymA == <<"A">>
SymB == <<"B">>
SymX == <<"X">>
CalcSymbols == {SymA, SymB, SymX}
CalcFractions == {Zero, Rat(1, 2), One}

CalcRows ==
    {Row(Rat(56, 1), Rat(8, 1), Label(<<"b", "c", "c">>), Rat(3, 1), Rat(80, 1)),
     Row(Rat(27, 1), Rat(3, 1), Label(<<"F", "C", "C">>), Rat(4, 1), Rat(200, 1)),
     Row(Rat(59, 1), NaN, Label(<<"f", "c", "c">>), NaN, NaN),
     Row(NaN, Rat(9, 1), NoLabel, Rat(4, 1), Zero),
     Row(Rat(52, 1), Zero, Label(<<"B", "C", "C">>), Zero, Rat(90, 1)),
     Row(Rat(-5, 1), Rat(2, 1), Label(<<"h", "c", "p">>), Rat(-3, 1), Rat(-7, 1))}

CalcTables == [{SymA, SymB} -> CalcRows]

CalcCompositions ==
    {c \in SeqsUpTo([el : CalcSymbols, frac : CalcFractions], 1, MaxElems) :
        \A i, j \in 1..Len(c) : c[i].el = c[j].el => i = j}

\* Composition strings and tables of a whole run of the command.
Fe == <<"F", "e">>
Co == <<"C", "o">>
Ni == <<"N", "i">>
Cr == <<"C", "r">>
Mn == <<"M", "n">>
RunSymbols == <<Fe, Co, Ni, Cr, Mn>>
RunSymbolSet == {RunSymbols[i] : i \in 1..Len(RunSymbols)}

RunFractionTexts == {<<"0", ".", "2">>, <<"0", ".", "5">>, <<"0">>}

RunInputs ==
    {Join([i \in 1..Len(f) |-> RunSymbols[i] \o <<":">> \o f[i]], ",") :
        f \in SeqsUpTo(RunFractionTexts, 1, Len(RunSymbols))}
    \cup {<<>>, Fe, Fe \o <<":", "n", "a", "n">>, Fe \o <<":", "2">>}

FCC == Label(<<"F", "C", "C">>)
BCC == Label(<<"B", "C", "C">>)
HCP == Label(<<"H", "C", "P">>)

CompleteTable ==
    Fe :> Row(Rat(56, 1), Rat(8, 1), FCC, Rat(3, 1), Rat(80, 1)) @@
    Co :> Row(Rat(59, 1), Rat(9, 1), FCC, Rat(5, 2), Rat(100, 1)) @@
    Ni :> Row(Rat(58, 1), Rat(9, 1), FCC, Rat(7, 2), Rat(91, 1)) @@
    Cr :> Row(Rat(52, 1), Rat(7, 1), FCC, Rat(3, 1), Rat(94, 1)) @@
    Mn :> Row(Rat(55, 1), Rat(15, 2), FCC, Rat(9, 1), Rat(8, 1))

MixedTable ==
    [s \in RunSymbolSet |->
        [CompleteTable[s] EXCEPT !.CrystalStructure =
            CASE s = Fe \/ s = Cr -> BCC [] s = Co -> HCP [] s = Mn -> NoLabel
              [] OTHER -> FCC]]

SparseTable ==
    [s \in RunSymbolSet |->
        CASE s = Fe -> [CompleteTable[s] EXCEPT !.Density_g_cm3 = NaN]
          [] s = Co -> [CompleteTable[s] EXCEPT !.LatticeParameter_a_A = NaN]
          [] s = Ni -> [CompleteTable[s] EXCEPT !.ThermalConductivity_W_mK = NaN]
          [] OTHER -> CompleteTable[s]]

BlankTable ==
    [s \in RunSymbolSet |-> Row(NaN, NaN, NoLabel, NaN, NaN)]

ShortTable == [s \in RunSymbolSet \ {Mn, Co} |-> CompleteTable[s]]

RunTables == {CompleteTable, MixedTable, SparseTable, BlankTable, ShortTable}

----------------------------------------------------------------------------
(* State *)

Idle(ctl, text, table, composition) ==
    /\ pc = ctl
    /\ composition_str = text
    /\ element_data = table
    /\ composition_dict = composition
    /\ predicted_density = NoValue
    /\ lattice_param_result = LatticeFailure
    /\ predicted_conductivity = NoValue
    /\ stderr = <<>>
    /\ results = <<>>
    /\ called = <<>>

\* cli.main after step 1: the table is loaded, the composition argument read.
Init ==
    \E text \in RunInputs, table \in RunTables : Idle("parse", text, table, None)

InitParse ==
    \E text \in ParseInputs : Idle("call", text, CompleteTable, None)

InitCalc ==
    \E c \in CalcCompositions, table \in CalcTables :
        Idle("call", <<>>, table, [ok |-> TRUE, items |-> c])

----------------------------------------------------------------------------
(* One call of a function of the library *)

CallParseComposition ==
    /\ pc = "call"
    /\ LET r == parse_composition(composition_str)
       IN  /\ composition_dict' = r.ret
           /\ stderr' = stderr \o r.err
    /\ called' = Append(called, "parse_composition")
    /\ pc' = "returned"
    /\ UNCHANGED <<composition_str, element_data, predicted_density,
                   lattice_param_result, predicted_conductivity, results>>

CallDensity ==
    /\ pc = "call"
    /\ LET r == calculate_density_rom(composition_dict.items, element_data)
       IN  /\ predicted_density' = r.ret
           /\ stderr' = stderr \o r.err
    /\ called' = Append(called, "density")
    /\ pc' = "returned"
    /\ UNCHANGED <<composition_str, element_data, composition_dict,
                   lattice_param_result, predicted_conductivity, results>>

CallLattice ==
    /\ pc = "call"
    /\ LET r == calculate_lattice_parameter_vegard(composition_dict.items,
                                                   element_data)
       IN  /\ lattice_param_result' = r.ret
           /\ stderr' = stderr \o r.err
    /\ called' = Append(called, "lattice")
    /\ pc' = "returned"
    /\ UNCHANGED <<composition_str, element_data, composition_dict,
                   predicted_density, predicted_conductivity, results>>

CallConductivity ==
    /\ pc = "call"
    /\ LET r == calculate_thermal_conductivity_rom(composition_dict.items,
                                                   element_data)
       IN  /\ predicted_conductivity' = r.ret
           /\ stderr' = stderr \o r.err
    /\ called' = Append(called, "conductivity")
    /\ pc' = "returned"
    /\ UNCHANGED <<composition_str, element_data, composition_dict,
                   predicted_density, lattice_param_result, results>>

----------------------------------------------------------------------------
(* cli.main, steps 2 to 5 *)

\* Step 2: parse the composition; exit(1) on None.
ParseComposition ==
    /\ pc = "parse"
    /\ LET r == parse_composition(composition_str)
       IN  /\ composition_dict' = r.ret
           /\ stderr' = stderr \o r.err
           /\ pc' = IF r.ret.ok THEN "validate" ELSE "exit"
    /\ UNCHANGED <<composition_str, element_data, predicted_density,
                   lattice_param_result, predicted_conductivity, results, called>>

AbsentElements(items, table) ==
    SelectSeq([i \in 1..Len(items) |-> items[i].el],
              LAMBDA e : e \notin DOMAIN table)

\* Step 3: every symbol must be in the table; exit(1) otherwise.
ValidateElements ==
    /\ pc = "validate"
    /\ LET absent == AbsentElements(composition_dict.items, element_data)
       IN  IF absent = <<>>
           THEN /\ pc' = "density"
                /\ UNCHANGED stderr
           ELSE /\ pc' = "exit"
                /\ stderr' = stderr
                     \o [i \in 1..Len(absent) |->
                            Msg("Error", "element_not_in_data_file", <<absent[i]>>)]
                     \o <<Msg("Error", "check_element_symbols", <<>>)>>
    /\ UNCHANGED <<composition_str, element_data, composition_dict,
                   predicted_density, lattice_param_result,
                   predicted_conductivity, results, called>>

\* Mutant of CalculateDensity: a failed density ends the run.
CalculateDensityAborts ==
    /\ pc = "density"
    /\ LET r == calculate_density_rom(composition_dict.items, element_data)
       IN  /\ predicted_density' = r.ret
           /\ stderr' = stderr \o r.err
           /\ pc' = IF r.ret.ok THEN "lattice" ELSE "exit"
    /\ called' = Append(called, "density")
    /\ UNCHANGED <<composition_str, element_data, composition_dict,
                   lattice_param_result, predicted_conductivity, results>>

\* Step 4: the three estimators, one after the other.
CalculateDensity ==
    /\ pc = "density"
    /\ LET r == calculate_density_rom(composition_dict.items, element_data)
       IN  /\ predicted_density' = r.ret
           /\ stderr' = stderr \o r.err
    /\ called' = Append(called, "density")
    /\ pc' = "lattice"
    /\ UNCHANGED <<composition_str, element_data, composition_dict,
                   lattice_param_result, predicted_conductivity, results>>

CalculateLattice ==
    /\ pc = "lattice"
    /\ LET r == calculate_lattice_parameter_vegard(composition_dict.items,
                                                   element_data)
       IN  /\ lattice_param_result' = r.ret
           /\ stderr' = stderr \o r.err
    /\ called' = Append(called, "lattice")
    /\ pc' = "conductivity"
    /\ UNCHANGED <<composition_str, element_data, composition_dict,
                   predicted_density, predicted_conductivity, results>>

CalculateConductivity ==
    /\ pc = "conductivity"
    /\ LET r == calculate_thermal_conductivity_rom(composition_dict.items,
                                                   element_data)
       IN  /\ predicted_conductivity' = r.ret
           /\ stderr' = stderr \o r.err
    /\ called' = Append(called, "conductivity")
    /\ pc' = "display"
    /\ UNCHANGED <<composition_str, element_data, composition_dict,
                   predicted_density, lattice_param_result, results>>

\* Step 5: one line per property, its value or "Calculation Failed".
DisplayResults ==
    /\ pc = "display"
    /\ results' =
         <<[property |-> "Density (RoM)", value |-> predicted_density.ok],
           [property |-> "Lattice Parameter (Vegard)",
            value |-> lattice_param_result.ok],
           [property |-> "Thermal Conductivity (RoM)",
            value |-> predicted_conductivity.ok]>>
    /\ pc' = "done"
    /\ UNCHANGED <<composition_str, element_data, composition_dict,
                   predicted_density, lattice_param_result,
                   predicted_conductivity, stderr, called>>

Next ==
    \/ ParseComposition
    \/ ValidateElements
    \/ CalculateDensity
    \/ CalculateLattice
    \/ CalculateConductivity
    \/ DisplayResults

Spec == Init /\ [][Next]_vars

NextParse == CallParseComposition

SpecParse == InitParse /\ [][NextParse]_vars

NextCalc == CallDensity \/ CallLattice \/ CallConductivity

SpecCalc == InitCalc /\ [][NextCalc]_vars

----------------------------------------------------------------------------
(* Properties of parse_composition (SpecParse) *)

Warnings(log) == SelectSeq(log, LAMBDA m : m.sev = "Warning")

Count(log, m) == Cardinality({i \in 1..Len(log) : log[i] = m})

\* The tokens of a composition string, as the user wrote them.
Tokens(text) == Split(text, ",")
Fields(token) == Split(Strip(token), ":")
WellFormed(text) ==
    \A i \in 1..Len(Tokens(text)) :
        /\ Len(Fields(Tokens(text)[i])) = 2
        /\ ParseFloat(Fields(Tokens(text)[i])[2]).ok
TokenSymbol(text, i) == Strip(Fields(Tokens(text)[i])[1])
TokenFraction(text, i) == ParseFloat(Fields(Tokens(text)[i])[2]).v
InUnitRange(f) == FLe(Zero, f) /\ FLe(f, One)
NoRepeat(text) ==
    \A i, j \in 1..Len(Tokens(text)) :
        TokenSymbol(text, i) = TokenSymbol(text, j) => i = j
Valid(text) ==
    /\ WellFormed(text)
    /\ \A i \in 1..Len(Tokens(text)) :
          TokenSymbol(text, i) # <<>> /\ InUnitRange(TokenFraction(text, i))
    /\ NoRepeat(text)

RECURSIVE SumTo(_, _)
SumTo(text, n) ==
    IF n = 0 THEN Zero ELSE FAdd(SumTo(text, n - 1), TokenFraction(text, n))
InputSum(text) == SumTo(text, Len(Tokens(text)))

RECURSIVE SumItems(_)
SumItems(items) ==
    IF items = <<>> THEN Zero ELSE FAdd(Head(items).frac, SumItems(Tail(items)))

\* The dictionary returned is the input divided by its sum, it sums to 1, and
\* the normalization warning was printed once.
NormalizedReturn ==
    LET S == InputSum(composition_str)
        n == Len(Tokens(composition_str))
    IN  /\ composition_dict.ok
        /\ Len(composition_dict.items) = n
        /\ \A i \in 1..n :
              /\ composition_dict.items[i].el = TokenSymbol(composition_str, i)
              /\ composition_dict.items[i].frac
                    = FDiv(TokenFraction(composition_str, i), S)
        /\ SumItems(composition_dict.items) = One
        /\ Count(stderr, NormalizationWarning) = 1

AllZero(text) ==
    \A i \in 1..Len(Tokens(text)) : TokenFraction(text, i) = Zero

\* C7: an input of well-formed tokens with distinct symbols whose fractions are
\* all 0 yields failure, never a composition.
C7_ZeroSumFails ==
    (/\ pc = "returned"
     /\ WellFormed(composition_str)
     /\ AllZero(composition_str)
     /\ NoRepeat(composition_str))
        => ~composition_dict.ok /\ composition_dict = None

C7_Witness ==
    /\ pc = "returned"
    /\ Valid(composition_str)
    /\ Len(Tokens(composition_str)) = 2
    /\ AllZero(composition_str)
    /\ ~composition_dict.ok
    /\ stderr[Len(stderr)] = Msg("Error", "parse_unexpected", <<>>)

HasOutOfRange(text) ==
    \E i \in 1..Len(Tokens(text)) :
        /\ Len(Fields(Tokens(text)[i])) = 2
        /\ ParseFloat(Fields(Tokens(text)[i])[2]).ok
        /\ ~InUnitRange(TokenFraction(text, i))

HasRepeat(text) ==
    \E i, j \in 1..Len(Tokens(text)) :
        /\ i # j
        /\ Len(Fields(Tokens(text)[i])) = 2
        /\ Len(Fields(Tokens(text)[j])) = 2
        /\ TokenSymbol(text, i) = TokenSymbol(text, j)

\* C8, as claimed: a composition is returned only for an input of at least one
\* token, all with a non-empty symbol, a fraction in [0,1] and no repeated
\* symbol; a fraction outside [0,1] or a repeated symbol yields failure.
C8_ReturnsOnlyValidated ==
    pc = "returned" =>
        /\ composition_dict.ok => Valid(composition_str)
        /\ (HasOutOfRange(composition_str) \/ HasRepeat(composition_str))
              => ~composition_dict.ok

----------------------------------------------------------------------------
(* Properties of the estimators called on their own (SpecCalc) *)

Returned(f) == pc = "returned" /\ called = <<f>>

Items == composition_dict.items

Present(i) == Items[i].el \in DOMAIN element_data

LatticeOf(i) == element_data[Items[i].el].LatticeParameter_a_A

\* Exactly element i of a two-element composition lacks a positive lattice
\* parameter; both elements are in the table.
OnlyOtherHasLattice(i) ==
    /\ Len(Items) = 2
    /\ Present(1) /\ Present(2)
    /\ IsNaN(LatticeOf(i)) \/ FLe(LatticeOf(i), Zero)
    /\ FLt(Zero, LatticeOf(3 - i))

LatticeWarned ==
    /\ lattice_param_result.warning
    /\ \E k \in 1..Len(stderr) :
          stderr[k].sev = "Warning" /\ stderr[k].id = "lattice_missing_data"

\* C2, as claimed: when one of two elements lacks lattice data the call
\* succeeds, returns the other element's lattice parameter, and warns.
C2_PartialSumIsOtherValue ==
    \A i \in 1..2 :
        (Returned("lattice") /\ OnlyOtherHasLattice(i))
            => /\ lattice_param_result.ok
               /\ lattice_param_result.val = LatticeOf(3 - i)
               /\ LatticeWarned

\* C2, amended: when one of two elements lacks lattice data the call succeeds,
\* returns the other element's fraction times its lattice parameter, and warns.
C2_PartialSumIsWeightedValue ==
    \A i \in 1..2 :
        (Returned("lattice") /\ OnlyOtherHasLattice(i))
            => /\ lattice_param_result.ok
               /\ lattice_param_result.val
                     = FMul(Items[3 - i].frac, LatticeOf(3 - i))
               /\ LatticeWarned

C2_Witness ==
    /\ Returned("lattice")
    /\ OnlyOtherHasLattice(1)
    /\ Items[2].frac = Rat(1, 2)
    /\ lattice_param_result.ok
    /\ lattice_param_result.val = Rat(2, 1)

\* C4: the thermal-conductivity call printed the linear-averaging caution
\* exactly when it returned a value.
C4_CautionIffValue ==
    Returned("conductivity")
        => (predicted_conductivity.ok <=> Count(stderr, LinearAverageCaution) = 1)
           /\ (~predicted_conductivity.ok => Count(stderr, LinearAverageCaution) = 0)

C4_Witness ==
    /\ Returned("conductivity")
    /\ predicted_conductivity.ok
    /\ \E k \in 1..Len(stderr) : stderr[k].id = "conductivity_missing_data"
    /\ stderr[Len(stderr)] = LinearAverageCaution

HasAbsent == \E i \in 1..Len(Items) : ~Present(i)

FirstAbsent ==
    Items[CHOOSE i \in 1..Len(Items) :
              ~Present(i) /\ \A j \in 1..(i - 1) : Present(j)].el

\* C5: a composition with an element absent from the table makes each of the
\* three estimators fail, with the not-found error as its last message.
C5_AbsentElementFails ==
    (pc = "returned" /\ HasAbsent)
        => /\ called[1] = "density" => ~predicted_density.ok
           /\ called[1] = "lattice" =>
                 ~lattice_param_result.ok /\ lattice_param_result = LatticeFailure
           /\ called[1] = "conductivity" => ~predicted_conductivity.ok
           /\ stderr # <<>>
           /\ stderr[Len(stderr)] = NotFound(FirstAbsent)

C5_Witness ==
    /\ Returned("density")
    /\ Len(Items) = 2
    /\ Present(1) /\ ~Present(2)
    /\ Items[1].frac = One /\ Items[2].frac = Zero
    /\ FLt(Zero, element_data[Items[1].el].AtomicMass_amu)
    /\ FLt(Zero, element_data[Items[1].el].Density_g_cm3)
    /\ ~predicted_density.ok

SingleWithPositiveData ==
    /\ Len(Items) = 1
    /\ FLt(Zero, Items[1].frac)
    /\ Present(1)
    /\ FLt(Zero, element_data[Items[1].el].AtomicMass_amu)
    /\ FLt(Zero, element_data[Items[1].el].Density_g_cm3)

\* C9: the density of a single element with positive mass and density, at any
\* fraction > 0, is that element's density.
C9_SingleElementDensity ==
    (Returned("density") /\ SingleWithPositiveData)
        => /\ predicted_density.ok
           /\ predicted_density.val = element_data[Items[1].el].Density_g_cm3

C9_Witness ==
    /\ Returned("density")
    /\ SingleWithPositiveData
    /\ Items[1].frac = Rat(1, 2)
    /\ predicted_density = Value(Rat(8, 1))

Without(items, i) == SubSeq(items, 1, i - 1) \o SubSeq(items, i + 1, Len(items))

WarningSet(log) == {log[k] : k \in {h \in 1..Len(log) : log[h].sev = "Warning"}}

\* The call made in this state gave the same outcome, value, structures and
\* warnings as the same call on the composition `rest`.
SameAsOn(rest) ==
    /\ called[1] = "density" =>
          LET r == calculate_density_rom(rest, element_data)
          IN  predicted_density = r.ret /\ WarningSet(stderr) = WarningSet(r.err)
    /\ called[1] = "lattice" =>
          LET r == calculate_lattice_parameter_vegard(rest, element_data)
          IN  lattice_param_result = r.ret /\ WarningSet(stderr) = WarningSet(r.err)
    /\ called[1] = "conductivity" =>
          LET r == calculate_thermal_conductivity_rom(rest, element_data)
          IN  predicted_conductivity = r.ret
              /\ WarningSet(stderr) = WarningSet(r.err)

\* C10, as claimed: an element of the table with fraction 0 changes nothing:
\* each estimator returns on the composition what it returns on the
\* composition without that element, with the same warnings.
C10_ZeroFractionChangesNothing ==
    \A i \in 1..Len(Items) :
        (pc = "returned" /\ Len(Items) >= 2 /\ Present(i) /\ Items[i].frac = Zero)
            => SameAsOn(Without(Items, i))

ZeroPresent(i) ==
    pc = "returned" /\ Len(Items) >= 2 /\ Present(i) /\ Items[i].frac = Zero

AsSet(seq) == {seq[k] : k \in 1..Len(seq)}

HasLattice(i) == ~IsNaN(LatticeOf(i)) /\ FLt(Zero, LatticeOf(i))

HasConductivity(i) == ~IsNaN(element_data[Items[i].el].ThermalConductivity_W_mK)

\* C10, amended: an element of the table with fraction 0 adds 0 to the sums.
\* Density returns what it returns without the element.  Lattice parameter and
\* thermal conductivity keep a success and its value, and keep the structures
\* found; but the element, when it has valid data, counts as a contributing
\* element: the call then succeeds whenever no element is absent, with value 0
\* if it failed without the element.
C10_ZeroFractionAddsZero ==
    \A i \in 1..Len(Items) :
        ZeroPresent(i) =>
            LET rest == Without(Items, i)
                D == calculate_density_rom(rest, element_data).ret
                L == calculate_lattice_parameter_vegard(rest, element_data).ret
                K == calculate_thermal_conductivity_rom(rest, element_data).ret
            IN  /\ called[1] = "density" => predicted_density = D
                /\ called[1] = "lattice" =>
                      /\ L.ok => /\ lattice_param_result.ok
                                 /\ lattice_param_result.val = L.val
                                 /\ AsSet(L.structures)
                                       \subseteq AsSet(lattice_param_result.structures)
                      /\ (lattice_param_result.ok /\ ~L.ok)
                            => lattice_param_result.val = Zero /\ HasLattice(i)
                      /\ (HasLattice(i) /\ ~HasAbsent) => lattice_param_result.ok
                /\ called[1] = "conductivity" =>
                      /\ K.ok => predicted_conductivity = K
                      /\ (predicted_conductivity.ok /\ ~K.ok)
                            => predicted_conductivity.val = Zero /\ HasConductivity(i)
                      /\ (HasConductivity(i) /\ ~HasAbsent)
                            => predicted_conductivity.ok

C10_Witness ==
    /\ Returned("lattice")
    /\ ZeroPresent(2)
    /\ Len(Items) = 2
    /\ Present(1)
    /\ Items[1].frac = One
    /\ IsNaN(LatticeOf(1))
    /\ LatticeOf(2) = Rat(3, 1)
    /\ lattice_param_result.ok
    /\ lattice_param_result.val = Zero
    /\ lattice_param_result.structures = <<<<"B", "C", "C">>>>

----------------------------------------------------------------------------
(* Properties of a run of the command (Spec) *)

Terminated == pc \in {"done", "exit"}

EqualFifths ==
    Join([i \in 1..5 |-> RunSymbols[i] \o <<":", "0", ".", "2">>], ",")

\* Every row of the table has all five values, the numbers positive, and all
\* rows carry the same structure label.
CompleteData(table) ==
    /\ \A s \in DOMAIN table :
          /\ FLt(Zero, table[s].AtomicMass_amu)
          /\ FLt(Zero, table[s].Density_g_cm3)
          /\ FLt(Zero, table[s].LatticeParameter_a_A)
          /\ FLt(Zero, table[s].ThermalConductivity_W_mK)
          /\ ~table[s].CrystalStructure.na
    /\ \A s, t \in DOMAIN table :
          Upper(table[s].CrystalStructure.text) = Upper(table[t].CrystalStructure.text)

FiveElementRun ==
    /\ Terminated
    /\ composition_str = EqualFifths
    /\ RunSymbolSet \subseteq DOMAIN element_data
    /\ CompleteData(element_data)

AllSucceeded ==
    /\ pc = "done"
    /\ predicted_density.ok
    /\ lattice_param_result.ok
    /\ predicted_conductivity.ok
    /\ \A k \in 1..Len(results) : results[k].value

\* C3, as claimed: the five-element equal-fraction run on complete data gives
\* three values and no warning at all.
C3_FiveElementsNoWarning ==
    FiveElementRun => AllSucceeded /\ Warnings(stderr) = <<>>

\* C3, amended: the five-element equal-fraction run on complete data gives
\* three values and exactly one warning, the linear-averaging caution of the
\* thermal-conductivity estimate.
C3_FiveElementsOnlyCaution ==
    FiveElementRun => AllSucceeded /\ Warnings(stderr) = <<LinearAverageCaution>>

C3_Witness ==
    /\ FiveElementRun
    /\ pc = "done"
    /\ predicted_conductivity = Value(Rat(373, 5))
    /\ lattice_param_result.structures = <<<<"F", "C", "C">>>>

AllThreeAttempted ==
    /\ pc = "done"
    /\ called = <<"density", "lattice", "conductivity">>
    /\ Len(results) = 3

\* C6, as claimed: every run whose composition parsed attempts and reports all
\* three properties, also when an element is absent from the table.
C6_ParsedRunAttemptsAll ==
    (Terminated /\ composition_dict.ok) => AllThreeAttempted

\* C6, amended: every run whose composition parsed and whose elements are all
\* in the table attempts and reports all three properties, whichever of them
\* fail; a run with an element absent from the table exits before any of them.
C6_ValidatedRunAttemptsAll ==
    (Terminated /\ composition_dict.ok)
        => IF AbsentElements(composition_dict.items, element_data) = <<>>
           THEN AllThreeAttempted
           ELSE pc = "exit" /\ called = <<>> /\ results = <<>>

C6_Witness ==
    /\ pc = "done"
    /\ composition_dict.ok
    /\ ~predicted_density.ok
    /\ lattice_param_result.ok
    /\ predicted_conductivity.ok
    /\ called = <<"density", "lattice", "conductivity">>
    /\ results[1].value = FALSE /\ results[2].value /\ results[3].value

====
